---------------------------- MODULE Spec2Model ----------------------------
(***************************************************************************)
(* FinOS dashboard page (src/app/page.tsx and its three-category variant   *)
(* src/unnamed/part_000): the React state of the Home component and its    *)
(* event handlers.  The two variants share the handlers line for line;     *)
(* they differ only in the shape of DashboardData and in the renderer.     *)
(*                                                                         *)
(* A JavaScript string is modelled as a sequence of pieces.  A piece is    *)
(* either one whitespace character (" ", "\r", "\n") or a run of           *)
(* non-whitespace text, so that trim() and split('\n') are computed as     *)
(* the code computes them.  The empty string is << >>.                     *)
(* A nullable or optional value is a sequence of length at most one:       *)
(* Null (<< >>) or Some(v) (<<v>>).                                        *)
(***************************************************************************)
EXTENDS Integers, Sequences, FiniteSets, TLC

VARIABLES
  file,            \* useState<File | null>
  csvData,         \* useState<string>
  rowCount,        \* useState<number>
  analyzing,       \* useState(false)
  analysisStage,   \* useState('')
  dashboardData,   \* useState<DashboardData | null>
  insights,        \* useState<string[]>
  chatMessages,    \* useState<ChatMessage[]>
  chatInput,       \* useState('')
  chatLoading,     \* useState(false)
  readers,         \* FileReaders whose onload has not run yet
  analysisCalls,   \* callAIAgent promises awaited by analyzeTransactions
  chatCalls,       \* callAIAgent promises awaited by handleSendMessage
  timers,          \* setTimeout callbacks not fired yet
  nReads,          \* number of FileReaders created so far
  nAnalyses,       \* number of analysis agent calls issued so far
  nAsks,           \* number of chat agent calls issued so far
  received,        \* history: analysis responses that carried dashboard_data
  asks,            \* history: one record per chat agent call, by call id
  nSettled,        \* history: number of chat agent calls settled so far
  runs,            \* history: one record per analysis agent call, by call id
  painted,         \* the colours the renderer computed last
  lastEvent        \* history: the handler step taken last

vars == <<file, csvData, rowCount, analyzing, analysisStage, dashboardData,
          insights, chatMessages, chatInput, chatLoading, readers,
          analysisCalls, chatCalls, timers, nReads, nAnalyses, nAsks,
          received, asks, nSettled, runs, painted, lastEvent>>

-----------------------------------------------------------------------------
(* Bounds of the model *)

MaxLen == 5

MaxOps == 4

-----------------------------------------------------------------------------
(* Values *)

Null == << >>

Some(v) == <<v>>

Last(s) == s[Len(s)]

Alphabet == {"a", " ", "\r", "\n"}

Texts == UNION {[1..n -> Alphabet] : n \in 0..MaxLen}

IsSpace(c) == c \in {" ", "\r", "\n"}

RECURSIVE TrimStart(_)
TrimStart(s) ==
  IF s = << >> THEN s
  ELSE IF IsSpace(Head(s)) THEN TrimStart(Tail(s)) ELSE s

RECURSIVE TrimEnd(_)
TrimEnd(s) ==
  IF s = << >> THEN s
  ELSE IF IsSpace(Last(s)) THEN TrimEnd(SubSeq(s, 1, Len(s) - 1)) ELSE s

Trim(s) == TrimEnd(TrimStart(s))

RECURSIVE Split(_)
Split(s) ==
  IF \A i \in 1..Len(s) : s[i] # "\n" THEN <<s>>
  ELSE LET i == CHOOSE k \in 1..Len(s) :
                  s[k] = "\n" /\ \A j \in 1..(k - 1) : s[j] # "\n"
       IN  <<SubSeq(s, 1, i - 1)>> \o Split(SubSeq(s, i + 1, Len(s)))

parseCSV_noTrim(text) == Len(Split(text)) - 1

parseCSV_emptyHasNoLine(text) ==
  IF Trim(text) = << >> THEN -1 ELSE Len(Split(Trim(text))) - 1

parseCSV(text) == Len(Split(Trim(text))) - 1


-----------------------------------------------------------------------------
(* Files the user can offer to the picker or drop on the page *)

CsvMime == "text/csv"

InputFiles ==
  { [name |-> "jan.csv", type |-> CsvMime, text |-> <<"a", "\n", "a", "\n">>],
    [name |-> "feb.csv", type |-> CsvMime,
     text |-> <<"a", "\n", "a", "\n", "a">>],
    [name |-> "notes.txt", type |-> "text/plain", text |-> <<"a">>] }

Offers == {Null} \cup {Some(f) : f \in InputFiles}

-----------------------------------------------------------------------------
(* Results of callAIAgent *)

D1 == [financial_alignment_score |-> 80, total_transactions |-> 3]

D2 == [financial_alignment_score |-> 40, total_transactions |-> 5]

\* result bodies: each field is Null when the body does not carry it
Body(d, i, q) == [dashboard_data |-> d, insights |-> i, query_response |-> q]

ReportBody == Body(Some(D1), Some(<<"i1">>), Null)

ReportBodyNoInsights == Body(Some(D2), Null, Null)

AnswerBody == Body(Null, Some(<<"i2">>), Some(<<"You spent 420 on Swiggy.">>))

EmptyAnswerBody == Body(Null, Null, Some(<< >>))

AgentResults == {ReportBody, ReportBodyNoInsights, AnswerBody, EmptyAnswerBody}

NoResult == Body(Null, Null, Null)

\* the call rejects, or the handler throws while reading the result
Thrown == [threw |-> TRUE, success |-> FALSE, status |-> "", result |-> NoResult]

\* {success: false}
Failure == [threw |-> FALSE, success |-> FALSE, status |-> "", result |-> NoResult]

\* {success: true, response: {status, result}}
Response(st, r) == [threw |-> FALSE, success |-> TRUE, status |-> st, result |-> r]

Outcomes ==
  {Thrown, Failure}
    \cup {Response("error", ReportBody)}
    \cup {Response("success", r) : r \in AgentResults}

NoOutcome == [threw |-> FALSE, success |-> FALSE, status |-> "none", result |-> NoResult]

IsSuccess_noStatus(o) == o.success

\* result.success && result.response.status === 'success'
IsSuccess(o) == o.success /\ o.status = "success"

-----------------------------------------------------------------------------
(* Fixed texts *)

FINOS_MANAGER_AGENT_ID == "6985a70a301c62c7ca2c7e05"

StageCleaning == "Cleaning data..."

StageCategorizing == "Categorizing transactions..."

StageCalculating == "Calculating financial score..."

AnalysisPrompt(csv) == <<"Analyze these transaction data:", "\n", "\n">> \o csv

ChatPrompt(q) ==
  <<"Based on the analyzed transaction data, answer this query: ">> \o q

FallbackText == <<"Analysis complete.">>

ErrorText == <<"Sorry, I encountered an error processing your query.">>

Questions == { <<"What was my total Swiggy spend?">>, <<" ", "Rent?">>, <<" ">> }

\* the files, agent calls and questions started so far
Started == nReads + nAnalyses + nAsks

OfferType(offer) == IF offer = Null THEN "" ELSE offer[1].type

Event(op, type, o) == [op |-> op, type |-> type, outcome |-> o]

\* nothing rendered yet
NotPainted == [score |-> "", category |-> ""]

-----------------------------------------------------------------------------
(* Initial state: the useState initial values *)

Init ==
  /\ file = Null
  /\ csvData = << >>
  /\ rowCount = 0
  /\ analyzing = FALSE
  /\ analysisStage = ""
  /\ dashboardData = Null
  /\ insights = << >>
  /\ chatMessages = << >>
  /\ chatInput = << >>
  /\ chatLoading = FALSE
  /\ readers = {}
  /\ analysisCalls = {}
  /\ chatCalls = {}
  /\ timers = {}
  /\ nReads = 0
  /\ nAnalyses = 0
  /\ nAsks = 0
  /\ received = {}
  /\ asks = << >>
  /\ nSettled = 0
  /\ runs = << >>
  /\ painted = NotPainted
  /\ lastEvent = Event("init", "", NoOutcome)

fileVars == <<file, csvData, rowCount, readers, nReads>>

analysisVars == <<analyzing, analysisStage, dashboardData, insights,
                  analysisCalls, timers, nAnalyses, received, runs>>

chatVars == <<chatMessages, chatInput, chatLoading, chatCalls, nAsks, asks,
              nSettled>>

-----------------------------------------------------------------------------
(* File intake *)

AcceptsFile_any(offer) == offer # Null

\* selectedFile && selectedFile.type === 'text/csv'
AcceptsFile(offer) == offer # Null /\ offer[1].type = CsvMime

\* handleFileChange: e.target.files?.[0] is the offer
handleFileChange(offer) ==
  /\ lastEvent' = Event("handleFileChange", OfferType(offer), NoOutcome)
  /\ UNCHANGED painted
  /\ IF AcceptsFile(offer)
       THEN /\ Started < MaxOps
            /\ file' = offer
            /\ nReads' = nReads + 1
            /\ readers' = readers \cup {[id |-> nReads + 1, file |-> offer[1]]}
            /\ UNCHANGED <<csvData, rowCount>>
       ELSE UNCHANGED fileVars
  /\ UNCHANGED <<analysisVars, chatVars>>

handleDrop_acceptsAnyType(offer) ==
  /\ lastEvent' = Event("handleDrop", OfferType(offer), NoOutcome)
  /\ UNCHANGED painted
  /\ IF offer # Null
       THEN /\ Started < MaxOps
            /\ file' = offer
            /\ nReads' = nReads + 1
            /\ readers' = readers \cup {[id |-> nReads + 1, file |-> offer[1]]}
            /\ UNCHANGED <<csvData, rowCount>>
       ELSE UNCHANGED fileVars
  /\ UNCHANGED <<analysisVars, chatVars>>

handleDrop_clearsOnReject(offer) ==
  /\ lastEvent' = Event("handleDrop", OfferType(offer), NoOutcome)
  /\ UNCHANGED painted
  /\ IF AcceptsFile(offer)
       THEN /\ Started < MaxOps
            /\ file' = offer
            /\ nReads' = nReads + 1
            /\ readers' = readers \cup {[id |-> nReads + 1, file |-> offer[1]]}
            /\ UNCHANGED <<csvData, rowCount>>
       ELSE /\ file' = Null
            /\ UNCHANGED <<csvData, rowCount, readers, nReads>>
  /\ UNCHANGED <<analysisVars, chatVars>>

\* handleDrop: e.dataTransfer.files[0] is the offer
handleDrop(offer) ==
  /\ lastEvent' = Event("handleDrop", OfferType(offer), NoOutcome)
  /\ UNCHANGED painted
  /\ IF AcceptsFile(offer)
       THEN /\ Started < MaxOps
            /\ file' = offer
            /\ nReads' = nReads + 1
            /\ readers' = readers \cup {[id |-> nReads + 1, file |-> offer[1]]}
            /\ UNCHANGED <<csvData, rowCount>>
       ELSE UNCHANGED fileVars
  /\ UNCHANGED <<analysisVars, chatVars>>

ReaderOnload_staleText(r) ==
  /\ r \in readers
  /\ readers' = readers \ {r}
  /\ csvData' = r.file.text
  /\ rowCount' = parseCSV(csvData)
  /\ lastEvent' = Event("onload", "", NoOutcome)
  /\ UNCHANGED painted
  /\ UNCHANGED <<file, nReads, analysisVars, chatVars>>

\* reader.onload
ReaderOnload(r) ==
  /\ r \in readers
  /\ readers' = readers \ {r}
  /\ csvData' = r.file.text
  /\ rowCount' = parseCSV(r.file.text)
  /\ lastEvent' = Event("onload", "", NoOutcome)
  /\ UNCHANGED painted
  /\ UNCHANGED <<file, nReads, analysisVars, chatVars>>

-----------------------------------------------------------------------------
(* Analysis *)

setDashboardData_merge(prev, value) ==
  IF prev = Null \/ value = Null THEN value
  ELSE Some([value[1] EXCEPT
               !.total_transactions = prev[1].total_transactions])

\* the state setter of useState: the new value replaces the previous one
setDashboardData(prev, value) == value

setInsights_keep(prev, value) == IF value = << >> THEN prev ELSE value

setInsights(prev, value) == value

\* if (managerResponse.dashboard_data)
HasDashboard(body) == body.dashboard_data # Null

\* managerResponse.insights || []
InsightsOrEmpty(body) == IF body.insights # Null THEN body.insights[1] ELSE << >>

analyzeTransactions_abortsPrevious ==
  /\ lastEvent' = Event("analyzeTransactions", "", NoOutcome)
  /\ UNCHANGED painted
  /\ IF csvData = << >>
       THEN UNCHANGED analysisVars
       ELSE /\ Started < MaxOps
            /\ analyzing' = TRUE
            /\ analysisStage' = StageCleaning
            /\ timers' = timers \cup
                 { [id |-> nAnalyses + 1, delay |-> 1000,
                    stage |-> StageCategorizing],
                   [id |-> nAnalyses + 1, delay |-> 2000,
                    stage |-> StageCalculating] }
            /\ analysisCalls' =
                 { [id |-> nAnalyses + 1, message |-> AnalysisPrompt(csvData),
                    agent |-> FINOS_MANAGER_AGENT_ID] }
            /\ nAnalyses' = nAnalyses + 1
            /\ runs' = Append(runs,
                 [during |-> {c.id : c \in analysisCalls}, settled |-> 0])
            /\ UNCHANGED <<dashboardData, insights, received>>
  /\ UNCHANGED <<fileVars, chatVars>>

analyzeTransactions_checksFile ==
  /\ lastEvent' = Event("analyzeTransactions", "", NoOutcome)
  /\ UNCHANGED painted
  /\ IF file = Null
       THEN UNCHANGED analysisVars
       ELSE /\ Started < MaxOps
            /\ analyzing' = TRUE
            /\ analysisStage' = StageCleaning
            /\ timers' = timers \cup
                 { [id |-> nAnalyses + 1, delay |-> 1000,
                    stage |-> StageCategorizing],
                   [id |-> nAnalyses + 1, delay |-> 2000,
                    stage |-> StageCalculating] }
            /\ analysisCalls' = analysisCalls \cup
                 { [id |-> nAnalyses + 1, message |-> AnalysisPrompt(csvData),
                    agent |-> FINOS_MANAGER_AGENT_ID] }
            /\ nAnalyses' = nAnalyses + 1
            /\ runs' = Append(runs,
                 [during |-> {c.id : c \in analysisCalls}, settled |-> 0])
            /\ UNCHANGED <<dashboardData, insights, received>>
  /\ UNCHANGED <<fileVars, chatVars>>

\* analyzeTransactions up to its await
analyzeTransactions ==
  /\ lastEvent' = Event("analyzeTransactions", "", NoOutcome)
  /\ UNCHANGED painted
  /\ IF csvData = << >>
       THEN UNCHANGED analysisVars
       ELSE /\ Started < MaxOps
            /\ analyzing' = TRUE
            /\ analysisStage' = StageCleaning
            /\ timers' = timers \cup
                 { [id |-> nAnalyses + 1, delay |-> 1000,
                    stage |-> StageCategorizing],
                   [id |-> nAnalyses + 1, delay |-> 2000,
                    stage |-> StageCalculating] }
            /\ analysisCalls' = analysisCalls \cup
                 { [id |-> nAnalyses + 1, message |-> AnalysisPrompt(csvData),
                    agent |-> FINOS_MANAGER_AGENT_ID] }
            /\ nAnalyses' = nAnalyses + 1
            /\ runs' = Append(runs,
                 [during |-> {c.id : c \in analysisCalls}, settled |-> 0])
            /\ UNCHANGED <<dashboardData, insights, received>>
  /\ UNCHANGED <<fileVars, chatVars>>

AnalysisSettle_clearsTimers(c, o) ==
  /\ c \in analysisCalls
  /\ analysisCalls' = analysisCalls \ {c}
  /\ lastEvent' = Event("AnalysisSettle", "", o)
  /\ UNCHANGED painted
  /\ IF ~o.threw /\ IsSuccess(o) /\ HasDashboard(o.result)
       THEN /\ dashboardData' =
                 setDashboardData(dashboardData, o.result.dashboard_data)
            /\ insights' = setInsights(insights, InsightsOrEmpty(o.result))
            /\ received' = received \cup {o.result}
       ELSE UNCHANGED <<dashboardData, insights, received>>
  /\ analyzing' = FALSE
  /\ analysisStage' = ""
  /\ timers' = {t \in timers : t.id # c.id}
  /\ runs' = [runs EXCEPT ![c.id].settled =
                 1 + Cardinality({i \in 1..Len(runs) : runs[i].settled > 0})]
  /\ UNCHANGED <<nAnalyses, fileVars, chatVars>>

AnalysisSettle_noFinally(c, o) ==
  /\ c \in analysisCalls
  /\ analysisCalls' = analysisCalls \ {c}
  /\ lastEvent' = Event("AnalysisSettle", "", o)
  /\ UNCHANGED painted
  /\ IF ~o.threw /\ IsSuccess(o) /\ HasDashboard(o.result)
       THEN /\ dashboardData' =
                 setDashboardData(dashboardData, o.result.dashboard_data)
            /\ insights' = setInsights(insights, InsightsOrEmpty(o.result))
            /\ received' = received \cup {o.result}
       ELSE UNCHANGED <<dashboardData, insights, received>>
  /\ IF o.threw
       THEN UNCHANGED <<analyzing, analysisStage>>
       ELSE analyzing' = FALSE /\ analysisStage' = ""
  /\ runs' = [runs EXCEPT ![c.id].settled =
                 1 + Cardinality({i \in 1..Len(runs) : runs[i].settled > 0})]
  /\ UNCHANGED <<timers, nAnalyses, fileVars, chatVars>>

\* analyzeTransactions from the await on: the call settles with outcome o
AnalysisSettle(c, o) ==
  /\ c \in analysisCalls
  /\ analysisCalls' = analysisCalls \ {c}
  /\ lastEvent' = Event("AnalysisSettle", "", o)
  /\ UNCHANGED painted
  /\ IF ~o.threw /\ IsSuccess(o) /\ HasDashboard(o.result)
       THEN /\ dashboardData' =
                 setDashboardData(dashboardData, o.result.dashboard_data)
            /\ insights' = setInsights(insights, InsightsOrEmpty(o.result))
            /\ received' = received \cup {o.result}
       ELSE UNCHANGED <<dashboardData, insights, received>>
  /\ analyzing' = FALSE
  /\ analysisStage' = ""
  /\ runs' = [runs EXCEPT ![c.id].settled =
                 1 + Cardinality({i \in 1..Len(runs) : runs[i].settled > 0})]
  /\ UNCHANGED <<timers, nAnalyses, fileVars, chatVars>>

\* timers fire in the order of their deadlines: an earlier analysis was
\* started earlier, and the 1000 ms timer of a call precedes its 2000 ms one
TimerDue(t) ==
  /\ t \in timers
  /\ \A u \in timers :
       \/ u = t
       \/ ~(u.id <= t.id /\ u.delay <= t.delay)

\* () => setAnalysisStage(stage)
TimerFire(t) ==
  /\ TimerDue(t)
  /\ timers' = timers \ {t}
  /\ analysisStage' = t.stage
  /\ lastEvent' = Event("TimerFire", "", NoOutcome)
  /\ UNCHANGED painted
  /\ UNCHANGED <<analyzing, dashboardData, insights, analysisCalls, nAnalyses,
                 received, runs, fileVars, chatVars>>

-----------------------------------------------------------------------------
(* Chat *)

UserTurn(text) == [role |-> "user", content |-> text]

AssistantTurn(text) == [role |-> "assistant", content |-> text]

ResponseText_noFallback(body) ==
  IF body.query_response # Null THEN body.query_response[1] ELSE FallbackText

\* managerResponse.query_response || 'Analysis complete.'
ResponseText(body) ==
  IF body.query_response # Null /\ body.query_response[1] # << >>
    THEN body.query_response[1]
    ELSE FallbackText

\* onChange of the chat input
setChatInput(q) ==
  /\ chatInput' = q
  /\ lastEvent' = Event("setChatInput", "", NoOutcome)
  /\ UNCHANGED painted
  /\ UNCHANGED <<chatMessages, chatLoading, chatCalls, nAsks, asks, nSettled,
                 fileVars, analysisVars>>

handleSendMessage_sendsBlank ==
  /\ lastEvent' = Event("handleSendMessage", "", NoOutcome)
  /\ UNCHANGED painted
  /\ IF dashboardData = Null
       THEN UNCHANGED chatVars
       ELSE /\ Started < MaxOps
            /\ chatMessages' = Append(chatMessages, UserTurn(chatInput))
            /\ chatInput' = << >>
            /\ chatLoading' = TRUE
            /\ chatCalls' = chatCalls \cup
                 { [id |-> nAsks + 1, message |-> ChatPrompt(chatInput),
                    agent |-> FINOS_MANAGER_AGENT_ID] }
            /\ nAsks' = nAsks + 1
            /\ asks' = Append(asks,
                 [userAt |-> Len(chatMessages) + 1,
                  during |-> {c.id : c \in chatCalls},
                  settled |-> 0, replyAt |-> 0])
            /\ UNCHANGED nSettled
  /\ UNCHANGED <<fileVars, analysisVars>>

handleSendMessage_withContext ==
  /\ lastEvent' = Event("handleSendMessage", "", NoOutcome)
  /\ UNCHANGED painted
  /\ IF Trim(chatInput) = << >> \/ dashboardData = Null
       THEN UNCHANGED chatVars
       ELSE /\ Started < MaxOps
            /\ chatMessages' = Append(chatMessages, UserTurn(chatInput))
            /\ chatInput' = << >>
            /\ chatLoading' = TRUE
            /\ chatCalls' = chatCalls \cup
                 { [id |-> nAsks + 1,
                    message |-> ChatPrompt(chatInput) \o
                      <<IF dashboardData[1].financial_alignment_score >= 75
                          THEN " (score: high)" ELSE " (score: low)">>,
                    agent |-> FINOS_MANAGER_AGENT_ID] }
            /\ nAsks' = nAsks + 1
            /\ asks' = Append(asks,
                 [userAt |-> Len(chatMessages) + 1,
                  during |-> {c.id : c \in chatCalls},
                  settled |-> 0, replyAt |-> 0])
            /\ UNCHANGED nSettled
  /\ UNCHANGED <<fileVars, analysisVars>>

\* handleSendMessage up to its await
handleSendMessage ==
  /\ lastEvent' = Event("handleSendMessage", "", NoOutcome)
  /\ UNCHANGED painted
  /\ IF Trim(chatInput) = << >> \/ dashboardData = Null
       THEN UNCHANGED chatVars
       ELSE /\ Started < MaxOps
            /\ chatMessages' = Append(chatMessages, UserTurn(chatInput))
            /\ chatInput' = << >>
            /\ chatLoading' = TRUE
            /\ chatCalls' = chatCalls \cup
                 { [id |-> nAsks + 1, message |-> ChatPrompt(chatInput),
                    agent |-> FINOS_MANAGER_AGENT_ID] }
            /\ nAsks' = nAsks + 1
            /\ asks' = Append(asks,
                 [userAt |-> Len(chatMessages) + 1,
                  during |-> {c.id : c \in chatCalls},
                  settled |-> 0, replyAt |-> 0])
            /\ UNCHANGED nSettled
  /\ UNCHANGED <<fileVars, analysisVars>>

\* the turns handleSendMessage appends once the call has settled with o
ChatReply_silent(o) ==
  IF o.threw THEN << >>
  ELSE IF IsSuccess(o) THEN <<AssistantTurn(ResponseText(o.result))>>
  ELSE << >>

ChatReply(o) ==
  IF o.threw THEN << >>
  ELSE IF IsSuccess(o) THEN <<AssistantTurn(ResponseText(o.result))>>
  ELSE <<AssistantTurn(ErrorText)>>

ChatSettle_storesReport(c, o) ==
  /\ c \in chatCalls
  /\ chatCalls' = chatCalls \ {c}
  /\ lastEvent' = Event("ChatSettle", "", o)
  /\ UNCHANGED painted
  /\ chatMessages' = chatMessages \o ChatReply(o)
  /\ chatLoading' = FALSE
  /\ nSettled' = nSettled + 1
  /\ asks' = [asks EXCEPT ![c.id] =
       [@ EXCEPT !.settled = nSettled + 1,
                 !.replyAt = IF ChatReply(o) = << >> THEN 0
                             ELSE Len(chatMessages) + 1]]
  /\ IF ~o.threw /\ IsSuccess(o) /\ HasDashboard(o.result)
       THEN dashboardData' = o.result.dashboard_data
       ELSE UNCHANGED dashboardData
  /\ UNCHANGED <<chatInput, nAsks, fileVars, analyzing, analysisStage,
                 insights, analysisCalls, timers, nAnalyses, received, runs>>

ChatSettle_noFinally(c, o) ==
  /\ c \in chatCalls
  /\ chatCalls' = chatCalls \ {c}
  /\ lastEvent' = Event("ChatSettle", "", o)
  /\ UNCHANGED painted
  /\ chatMessages' = chatMessages \o ChatReply(o)
  /\ chatLoading' = IF o.threw THEN chatLoading ELSE FALSE
  /\ nSettled' = nSettled + 1
  /\ asks' = [asks EXCEPT ![c.id] =
       [@ EXCEPT !.settled = nSettled + 1,
                 !.replyAt = IF ChatReply(o) = << >> THEN 0
                             ELSE Len(chatMessages) + 1]]
  /\ UNCHANGED <<chatInput, nAsks, fileVars, analysisVars>>

ChatSettle_staleClosure(c, o) ==
  /\ c \in chatCalls
  /\ chatCalls' = chatCalls \ {c}
  /\ lastEvent' = Event("ChatSettle", "", o)
  /\ UNCHANGED painted
  /\ chatMessages' =
       SubSeq(chatMessages, 1, asks[c.id].userAt - 1) \o ChatReply(o)
  /\ chatLoading' = FALSE
  /\ nSettled' = nSettled + 1
  /\ asks' = [asks EXCEPT ![c.id] =
       [@ EXCEPT !.settled = nSettled + 1,
                 !.replyAt = IF ChatReply(o) = << >> THEN 0
                             ELSE asks[c.id].userAt]]
  /\ UNCHANGED <<chatInput, nAsks, fileVars, analysisVars>>

\* handleSendMessage from the await on: the call settles with outcome o
ChatSettle(c, o) ==
  /\ c \in chatCalls
  /\ chatCalls' = chatCalls \ {c}
  /\ lastEvent' = Event("ChatSettle", "", o)
  /\ UNCHANGED painted
  /\ chatMessages' = chatMessages \o ChatReply(o)
  /\ chatLoading' = FALSE
  /\ nSettled' = nSettled + 1
  /\ asks' = [asks EXCEPT ![c.id] =
       [@ EXCEPT !.settled = nSettled + 1,
                 !.replyAt = IF ChatReply(o) = << >> THEN 0
                             ELSE Len(chatMessages) + 1]]
  /\ UNCHANGED <<chatInput, nAsks, fileVars, analysisVars>>

-----------------------------------------------------------------------------
(* The page's controls: what the disabled attributes let through *)

\* the caption of the Analyze button: the stage label while analyzing
ButtonCaption == IF analyzing THEN analysisStage ELSE "Analyze Transactions"

AnalyzeEnabled_ignoresAnalyzing == file # Null

\* the Analyze button: disabled={!file || analyzing}
AnalyzeEnabled == file # Null /\ ~analyzing

ChatInputEnabled_ignoresLoading == dashboardData # Null

\* the chat input: disabled={!dashboardData || chatLoading}
ChatInputEnabled == dashboardData # Null /\ ~chatLoading

\* the Send button: disabled={!dashboardData || !chatInput.trim() || chatLoading}
SendEnabled == dashboardData # Null /\ Trim(chatInput) # << >> /\ ~chatLoading

Settle ==
  \/ \E r \in readers : ReaderOnload(r)
  \/ \E c \in analysisCalls, o \in Outcomes : AnalysisSettle(c, o)
  \/ \E c \in chatCalls, o \in Outcomes : ChatSettle(c, o)
  \/ \E t \in timers : TimerFire(t)

\* the user acts through the rendered controls
Next ==
  \/ \E f \in Offers : handleFileChange(f)
  \/ \E f \in Offers : handleDrop(f)
  \/ AnalyzeEnabled /\ analyzeTransactions
  \/ \E q \in Questions : ChatInputEnabled /\ setChatInput(q)
  \/ ChatInputEnabled /\ handleSendMessage
  \/ SendEnabled /\ handleSendMessage
  \/ Settle

Spec == Init /\ [][Next]_vars

\* the handlers are called whatever the controls show
NextHandlers ==
  \/ \E f \in Offers : handleFileChange(f)
  \/ \E f \in Offers : handleDrop(f)
  \/ analyzeTransactions
  \/ \E q \in Questions : setChatInput(q)
  \/ handleSendMessage
  \/ Settle

SpecHandlers == Init /\ [][NextHandlers]_vars

\* file intake and analysis with the handlers called whatever the controls
\* show; the chat is left alone
NextAnalysis ==
  \/ \E f \in Offers : handleFileChange(f)
  \/ \E f \in Offers : handleDrop(f)
  \/ analyzeTransactions
  \/ \E r \in readers : ReaderOnload(r)
  \/ \E c \in analysisCalls, o \in Outcomes : AnalysisSettle(c, o)
  \/ \E t \in timers : TimerFire(t)

SpecAnalysis == Init /\ [][NextAnalysis]_vars

-----------------------------------------------------------------------------
(* parseCSV on every text up to MaxLen: a picked CSV file is being read *)

PickedFile(t) == [name |-> "statement.csv", type |-> CsvMime, text |-> t]

InitParse ==
  /\ \E t \in Texts :
       /\ file = Some(PickedFile(t))
       /\ readers = {[id |-> 1, file |-> PickedFile(t)]}
  /\ nReads = 1
  /\ csvData = << >>
  /\ rowCount = 0
  /\ analyzing = FALSE
  /\ analysisStage = ""
  /\ dashboardData = Null
  /\ insights = << >>
  /\ chatMessages = << >>
  /\ chatInput = << >>
  /\ chatLoading = FALSE
  /\ analysisCalls = {}
  /\ chatCalls = {}
  /\ timers = {}
  /\ nAnalyses = 0
  /\ nAsks = 0
  /\ received = {}
  /\ asks = << >>
  /\ nSettled = 0
  /\ runs = << >>
  /\ painted = NotPainted
  /\ lastEvent = Event("handleFileChange", CsvMime, NoOutcome)

NextParse == \E r \in readers : ReaderOnload(r)

SpecParse == InitParse /\ [][NextParse]_vars

-----------------------------------------------------------------------------
(* Renderer: the colour helpers, applied to the report on the page *)

MaxScore == 100

Green == "#00bfa5"

Yellow == "#ffd700"

Red == "#ff5252"

DefaultColor == "#95a5a6"

getScoreColor_strict(score) ==
  IF score > 75 THEN Green ELSE IF score > 50 THEN Yellow ELSE Red

getScoreColor(score) ==
  IF score >= 75 THEN Green ELSE IF score >= 50 THEN Yellow ELSE Red

\* the own properties of the colors object literal; a key is a string, the
\* pieces of "bill_payments" are "bill", "_" and "payments"
colors ==
  [k \in {<<"dining">>, <<"shopping">>, <<"bill", "_", "payments">>,
          <<"travel">>, <<"investments">>, <<"others">>} |->
     CASE k = <<"dining">> -> "#ff6b6b"
       [] k = <<"shopping">> -> "#4ecdc4"
       [] k = <<"bill", "_", "payments">> -> "#45b7d1"
       [] k = <<"travel">> -> "#96ceb4"
       [] k = <<"investments">> -> "#1a237e"
       [] k = <<"others">> -> DefaultColor]

\* what an object literal inherits from Object.prototype under a lower-case
\* name: colors['constructor'] is the function Object
ObjectPrototype ==
  [k \in {<<"constructor">>} |-> "function Object() { [native code] }"]

\* obj[key] of an object literal: own property, inherited property, or
\* undefined (Null)
PropertyOf(obj, key) ==
  IF key \in DOMAIN obj THEN Some(obj[key])
  ELSE IF key \in DOMAIN ObjectPrototype THEN Some(ObjectPrototype[key])
  ELSE Null

\* toLowerCase on one piece of text
LowerPiece(w) ==
  CASE w = "Dining" -> "dining"
    [] w = "DINING" -> "dining"
    [] w = "Bill" -> "bill"
    [] w = "Payments" -> "payments"
    [] w = "Others" -> "others"
    [] OTHER -> w

toLowerCase(str) == [i \in 1..Len(str) |-> LowerPiece(str[i])]

\* str.replace(' ', '_'): only the first space is replaced
ReplaceFirstSpace(str) ==
  IF \A i \in 1..Len(str) : str[i] # " " THEN str
  ELSE LET first == CHOOSE k \in 1..Len(str) :
                      str[k] = " " /\ \A j \in 1..(k - 1) : str[j] # " "
       IN  [i \in 1..Len(str) |-> IF i = first THEN "_" ELSE str[i]]

\* colors[category.toLowerCase().replace(' ', '_')] || '#95a5a6'
getCategoryColor(category) ==
  LET v == PropertyOf(colors, ReplaceFirstSpace(toLowerCase(category)))
  IN  IF v # Null THEN v[1] ELSE DefaultColor

\* category names the agent can put in a report
CategoryInputs ==
  { <<"dining">>, <<"Dining">>, <<"DINING">>, <<"shopping">>,
    <<"bill", "_", "payments">>, <<"Bill", " ", "Payments">>,
    <<"bill", " ", " ", "payments">>, <<"travel">>, <<"investments">>,
    <<"others">>, <<"Others">>, <<"groceries">>, <<"constructor">>, << >> }

\* a report with the given score and one entry of the given category
ReportOf(score, category) ==
  [financial_alignment_score |-> score, total_transactions |-> 1,
   category |-> category]

RenderedFile == [name |-> "statement.csv", type |-> CsvMime,
                 text |-> <<"a", "\n", "a">>]

\* the right panel: the score gauge and the category borders
Render ==
  /\ dashboardData # Null
  /\ painted' =
       [score |-> getScoreColor(dashboardData[1].financial_alignment_score),
        category |-> getCategoryColor(dashboardData[1].category)]
  /\ lastEvent' = Event("render", "", NoOutcome)
  /\ UNCHANGED <<fileVars, analysisVars, chatVars>>

\* a report has just been received and is about to be rendered
InitRender ==
  /\ \E score \in 0..MaxScore, category \in CategoryInputs :
       LET body == Body(Some(ReportOf(score, category)), Null, Null)
       IN  /\ dashboardData = Some(ReportOf(score, category))
           /\ received = {body}
           /\ lastEvent = Event("AnalysisSettle", "", Response("success", body))
  /\ file = Some(RenderedFile)
  /\ csvData = RenderedFile.text
  /\ rowCount = parseCSV(RenderedFile.text)
  /\ readers = {}
  /\ nReads = 1
  /\ analyzing = FALSE
  /\ analysisStage = ""
  /\ insights = << >>
  /\ analysisCalls = {}
  /\ timers = {}
  /\ nAnalyses = 1
  /\ runs = <<[during |-> {}, settled |-> 1]>>
  /\ chatMessages = << >>
  /\ chatInput = << >>
  /\ chatLoading = FALSE
  /\ chatCalls = {}
  /\ nAsks = 0
  /\ asks = << >>
  /\ nSettled = 0
  /\ painted = NotPainted

NextRender == Render

SpecRender == InitRender /\ [][NextRender]_vars

-----------------------------------------------------------------------------
(* Properties *)

\* the step just taken settled an analysis call / a chat call
AnalysisSettled == lastEvent.op = "AnalysisSettle"

ChatSettled == lastEvent.op = "ChatSettle"

\* the outcome o is the agent's success: no throw, success = true and
\* response status "success"
Succeeded(o) == ~o.threw /\ o.success /\ o.status = "success"

\* C1: a RunAnalysis whose agent call fails (success = false, a status other
\* than "success", or a throw) leaves the report and the insights list as
\* they were before the call settled.
C1_FailedAnalysisKeepsReport ==
  [][ (AnalysisSettled' /\ ~Succeeded(lastEvent'.outcome))
        => (dashboardData' = dashboardData /\ insights' = insights) ]_vars

\* a call with a non-"success" status has settled while a report was shown
C1_Witness ==
  /\ AnalysisSettled
  /\ lastEvent.outcome = Response("error", ReportBody)
  /\ dashboardData = Some(D2)

\* C2 as stated: every RunAnalysis whose call returns success = true with
\* status "success" stores the report and the insights carried by that
\* response.
C2_EverySuccessReplaces ==
  [][ (AnalysisSettled' /\ Succeeded(lastEvent'.outcome))
        => /\ dashboardData' = lastEvent'.outcome.result.dashboard_data
           /\ lastEvent'.outcome.result.insights # Null
                => insights' = lastEvent'.outcome.result.insights[1] ]_vars

\* C2 amended: a successful response that carries dashboard_data replaces the
\* report by it and the insights list by the response's insights (by the
\* empty list when it carries none); a successful response without
\* dashboard_data leaves both as they were.
C2_SuccessWithDashboardReplaces ==
  [][ (AnalysisSettled' /\ Succeeded(lastEvent'.outcome))
        => LET body == lastEvent'.outcome.result
           IN  IF body.dashboard_data # Null
                 THEN /\ dashboardData' = body.dashboard_data
                      /\ insights' = IF body.insights = Null THEN << >>
                                     ELSE body.insights[1]
                 ELSE /\ dashboardData' = dashboardData
                      /\ insights' = insights ]_vars

\* a report without insights has replaced an earlier report with insights
C2_Witness ==
  /\ AnalysisSettled
  /\ lastEvent.outcome = Response("success", ReportBodyNoInsights)
  /\ ReportBody \in received
  /\ dashboardData = Some(D2)
  /\ insights = << >>

\* C3: the report is absent, or it is the dashboard_data of one response
\* received by RunAnalysis and the insights list is the one of that same
\* response; it is never put together from two responses.
C3_ReportFromOneResponse ==
  \/ dashboardData = Null /\ insights = << >>
  \/ \E body \in received :
       /\ dashboardData = body.dashboard_data
       /\ insights = IF body.insights = Null THEN << >> ELSE body.insights[1]

\* two different reports have been received, the second is shown
C3_Witness ==
  /\ AnalysisSettled
  /\ received = {ReportBody, ReportBodyNoInsights}
  /\ dashboardData = Some(D1)
  /\ insights = <<"i1">>

\* the step being taken is an Ask: handleSendMessage runs with a non-blank
\* question while a report exists
Asking ==
  /\ lastEvent'.op = "handleSendMessage"
  /\ Trim(chatInput) # << >>
  /\ dashboardData # Null

\* the step being taken appends exactly the turn t to the transcript
Appends(t) == chatMessages' = Append(chatMessages, t)

\* C4: an Ask appends exactly one user turn at once, and the settling of its
\* agent call appends exactly one assistant turn, whatever the outcome.
C4_OneUserThenOneAssistantTurn ==
  [][ /\ Asking => Appends([role |-> "user", content |-> chatInput])
      /\ ChatSettled' =>
           \E t \in {chatMessages'[i] : i \in 1..Len(chatMessages')} :
             t.role = "assistant" /\ Appends(t) ]_vars

\* C5: when the agent call of an Ask throws, exactly one assistant turn with
\* the fixed error text is appended.
C5_ThrowAppendsErrorTurn ==
  [][ (ChatSettled' /\ lastEvent'.outcome.threw)
        => Appends([role |-> "assistant", content |-> ErrorText]) ]_vars

\* C6: when the agent call of an Ask returns without throwing and is not a
\* success, exactly one assistant turn with the fixed text is appended and
\* the report is left as it was.
C6_FailureAppendsErrorTurn ==
  [][ (ChatSettled' /\ ~lastEvent'.outcome.threw
         /\ ~Succeeded(lastEvent'.outcome))
        => /\ Appends([role |-> "assistant", content |->
                 <<"Sorry, I encountered an error processing your query.">>])
           /\ dashboardData' = dashboardData ]_vars

\* a chat call has returned success = false and its error turn is the last
C6_Witness ==
  /\ ChatSettled
  /\ lastEvent.outcome = Failure
  /\ Len(chatMessages) = 2
  /\ chatMessages[1].role = "user"
  /\ chatMessages[2] = AssistantTurn(ErrorText)
  /\ dashboardData # Null

\* C7: when the agent call of an Ask succeeds, the assistant turn appended
\* holds the response's query_response if that is present and not empty,
\* and 'Analysis complete.' otherwise.
C7_SuccessAppendsAnswerOrFallback ==
  [][ (ChatSettled' /\ Succeeded(lastEvent'.outcome))
        => LET q == lastEvent'.outcome.result.query_response
           IN  Appends([role |-> "assistant", content |->
                 IF q # Null /\ q[1] # << >> THEN q[1]
                 ELSE <<"Analysis complete.">>]) ]_vars

\* a success with an empty query_response has been answered by the fallback
C7_Witness ==
  /\ ChatSettled
  /\ lastEvent.outcome = Response("success", EmptyAnswerBody)
  /\ chatMessages # << >>
  /\ Last(chatMessages) = AssistantTurn(<<"Analysis complete.">>)

\* C9: an Accept (picker or drop) of a file that is not CSV leaves the stored
\* file, the CSV text and the row count as they were and starts no read.
C9_NonCsvIgnored ==
  [][ (lastEvent'.op \in {"handleFileChange", "handleDrop"}
         /\ lastEvent'.type # "text/csv")
        => UNCHANGED <<file, csvData, rowCount, readers>> ]_vars

\* a text/plain file has been dropped while a CSV file was loaded
C9_Witness ==
  /\ lastEvent.op = "handleDrop"
  /\ lastEvent.type = "text/plain"
  /\ file # Null
  /\ csvData # << >>
  /\ rowCount = 1
  /\ readers = {}

LineStarts(t) ==
  {i \in 1..Len(t) : i = 1 \/ t[i - 1] = "\n"}

\* the line of t that starts at i holds a piece that is not whitespace
LineHasData(t, i) ==
  \E k \in i..Len(t) :
    /\ ~IsSpace(t[k])
    /\ \A j \in i..k : t[j] # "\n"

\* t is one header line followed by n data lines: n + 1 lines, none blank,
\* separated by newlines, the last one with or without its newline
IsCsvOfRows(t, n) ==
  /\ t # << >>
  /\ \A i \in LineStarts(t) : LineHasData(t, i)
  /\ Cardinality(LineStarts(t)) = n + 1

\* C10: for a CSV text of one header line followed by N data lines, the row
\* count stored once the file is read is N.
C10_RowCountIsDataLines ==
  lastEvent.op = "onload"
    => \A n \in 0..MaxLen : IsCsvOfRows(csvData, n) => rowCount = n

\* a header, one data line and the closing newline have been read
C10_Witness ==
  /\ lastEvent.op = "onload"
  /\ csvData = <<"a", "\n", "a", "\n">>
  /\ IsCsvOfRows(csvData, 1)
  /\ rowCount = 1

\* C11 as stated: for the empty CSV text the row count stored is -1.
C11_EmptyTextGivesMinusOne ==
  (lastEvent.op = "onload" /\ csvData = << >>) => rowCount = -1

\* C11 amended: for the empty CSV text the row count stored is 0 (the split
\* of the empty string is one empty line), and it is stored as computed.
C11_EmptyTextGivesZero ==
  (lastEvent.op = "onload" /\ csvData = << >>) => rowCount = 0

\* an empty file has been read
C11_Witness ==
  /\ lastEvent.op = "onload"
  /\ file # Null
  /\ file[1].text = << >>
  /\ csvData = << >>
  /\ rowCount = 0
  /\ readers = {}

\* the page has just been rendered
Rendered == lastEvent.op = "render"

\* C12: a score of 75 or more is painted green, a score from 50 up to but
\* not including 75 yellow, a score below 50 red; so 75 is green, 74 and 50
\* are yellow and 49 is red.
C12_ScoreColorBands ==
  Rendered =>
    LET score == dashboardData[1].financial_alignment_score
    IN  /\ score >= 75 => painted.score = "#00bfa5"
        /\ (50 <= score /\ score < 75) => painted.score = "#ffd700"
        /\ score < 50 => painted.score = "#ff5252"
        /\ score \in {50, 74} => painted.score = "#ffd700"
        /\ score = 49 => painted.score = "#ff5252"

\* the score 75 has been painted green
C12_Witness ==
  /\ Rendered
  /\ dashboardData[1].financial_alignment_score = 75
  /\ painted.score = "#00bfa5"

\* C13: each of the six category keys is painted in its fixed colour, and
\* every name that is not one of the six after lower-casing and replacing a
\* space by an underscore is painted in the default colour #95a5a6.
C13_CategoryColorOrDefault ==
  Rendered =>
    LET key == ReplaceFirstSpace(toLowerCase(dashboardData[1].category))
    IN  /\ key = <<"dining">> => painted.category = "#ff6b6b"
        /\ key = <<"shopping">> => painted.category = "#4ecdc4"
        /\ key = <<"bill", "_", "payments">> => painted.category = "#45b7d1"
        /\ key = <<"travel">> => painted.category = "#96ceb4"
        /\ key = <<"investments">> => painted.category = "#1a237e"
        /\ key = <<"others">> => painted.category = "#95a5a6"
        /\ key \notin { <<"dining">>, <<"shopping">>,
                        <<"bill", "_", "payments">>, <<"travel">>,
                        <<"investments">>, <<"others">> }
             => painted.category = "#95a5a6"

\* C14: whatever the outcome of the agent call, the step that settles a
\* RunAnalysis leaves analyzing false and the stage label empty.
C14_SettleClearsLoading ==
  [][ AnalysisSettled' => (analyzing' = FALSE /\ analysisStage' = "") ]_vars

\* an analysis call has thrown and the loading flag is cleared
C14_Witness ==
  /\ AnalysisSettled
  /\ lastEvent.outcome = Thrown
  /\ analysisCalls = {}
  /\ ~analyzing
  /\ analysisStage = ""

\* the state of the page itself, without the history variables
pageVars == <<file, csvData, rowCount, analyzing, analysisStage,
              dashboardData, insights, chatMessages, chatInput, chatLoading,
              readers, analysisCalls, chatCalls, timers>>

\* C15: RunAnalysis invoked while the stored CSV text is empty makes no agent
\* call, schedules no timer and changes no state.
C15_NoTextNoAnalysis ==
  [][ (lastEvent'.op = "analyzeTransactions" /\ csvData = << >>)
        => (UNCHANGED pageVars /\ ~analyzing') ]_vars

\* Analyze has been clicked on a file whose read is still pending
C15_Witness ==
  /\ lastEvent.op = "analyzeTransactions"
  /\ file # Null
  /\ readers # {}
  /\ csvData = << >>
  /\ ~analyzing
  /\ analysisCalls = {}
  /\ timers = {}

\* C16: the file whose name is displayed, the stored CSV text and the row
\* count belong to the same file in every reachable state, also while a read
\* is pending and when two reads overlap (before the first read of all has
\* finished, the text is still empty and the count 0).
C16_NameTextCountOfOneFile ==
  \/ file = Null /\ csvData = << >> /\ rowCount = 0
  \/ /\ file # Null
     /\ \/ csvData = << >> /\ rowCount = 0 /\ readers # {}
        \/ /\ csvData = file[1].text
           /\ rowCount = Cardinality(LineStarts(file[1].text)) - 1

\* C17: the transcript is append-only: after every step the previous
\* transcript is a prefix of the new one.
C17_TranscriptAppendOnly ==
  [][ /\ Len(chatMessages') >= Len(chatMessages)
      /\ SubSeq(chatMessages', 1, Len(chatMessages)) = chatMessages ]_vars

\* a second question has been asked after the first one was answered
C17_Witness ==
  /\ lastEvent.op = "handleSendMessage"
  /\ Len(chatMessages) = 3
  /\ chatMessages[1].role = "user"
  /\ chatMessages[2].role = "assistant"
  /\ chatMessages[3].role = "user"

\* the analysis call settled last is one of two calls that were in flight
\* together, and the other one has settled before it
LastOfOverlap ==
  \E i, j \in 1..Len(runs) :
    /\ i \in runs[j].during
    /\ runs[i].settled > 0
    /\ runs[j].settled > 0
    /\ \A k \in 1..Len(runs) :
         runs[k].settled <= runs[i].settled \/ runs[k].settled <= runs[j].settled

TimersNeverCancelled ==
  /\ AnalysisSettled' => timers' = timers
  /\ lastEvent'.op = "TimerFire"
       => \E t \in timers : timers' = timers \ {t} /\ analysisStage' = t.stage

\* C19 as stated: the stage timers are never cancelled, and the label a timer
\* writes after the analysis has ended is visible to the user.
C19_StaleLabelVisible ==
  [][ /\ TimersNeverCancelled
      /\ (~analyzing' /\ analysisStage' # "")
           => ButtonCaption' = analysisStage' ]_vars

\* C19 amended: the stage timers are never cancelled and a timer that fires
\* after the analysis has ended stores its label, but the label is not shown:
\* while analyzing is false the button reads 'Analyze Transactions'.
C19_StaleLabelStoredNotShown ==
  [][ /\ TimersNeverCancelled
      /\ ~analyzing' => ButtonCaption' = "Analyze Transactions" ]_vars

\* after a failed analysis its second timer has fired: the label is stored
\* while nothing is being analyzed
C19_Witness ==
  /\ lastEvent.op = "TimerFire"
  /\ nAnalyses = 1
  /\ analysisCalls = {}
  /\ received = {}
  /\ timers = {}
  /\ ~analyzing
  /\ analysisStage = "Calculating financial score..."
  /\ ButtonCaption # analysisStage

\* C20: through the page's controls, analyzing implies that a file has been
\* selected.
C20_AnalyzingImpliesFile == analyzing => file # Null

\* an analysis is running on the selected file
C20_Witness ==
  /\ lastEvent.op = "analyzeTransactions"
  /\ analyzing
  /\ analysisCalls # {}
  /\ file # Null

\* the question of the chat call c: the content of the user turn its Ask
\* appended
QuestionOf(c) == chatMessages[asks[c.id].userAt].content

AcceptEffect(f) ==
  IF f # Null /\ f[1].type = "text/csv"
    THEN /\ file' = f
         /\ csvData' = csvData
         /\ rowCount' = rowCount
         /\ readers \subseteq readers'
         /\ \E r \in readers' \ readers :
              /\ readers' = readers \cup {r}
              /\ r.file = f[1]
    ELSE UNCHANGED <<file, csvData, rowCount, readers>>

\* C22: the picker and the drop handler are equivalent: from the same prior
\* state and with the same file, each has the one effect AcceptEffect on the
\* stored file, the CSV text, the row count and the reads under way.
C22_DropEquivalentToPick ==
  [][ \A f \in Offers :
        /\ handleFileChange(f) => AcceptEffect(f)
        /\ handleDrop(f) => AcceptEffect(f) ]_vars

\* a second CSV file has been dropped on a page that had loaded a first one
C22_Witness ==
  /\ lastEvent.op = "handleDrop"
  /\ lastEvent.type = "text/csv"
  /\ file # Null
  /\ csvData # << >>
  /\ csvData # file[1].text
  /\ \E r \in readers : r.file = file[1]

\* C23: in every reachable state the stored row count is parseCSV of the
\* stored CSV text (0 for the initial empty text): the two are only ever
\* written together.
C23_RowCountMatchesText ==
  /\ rowCount = parseCSV(csvData)
  /\ csvData = << >> => rowCount = 0

\* the text of a second file has replaced the text of the first
C23_Witness ==
  /\ lastEvent.op = "onload"
  /\ nReads = 2
  /\ readers = {}
  /\ csvData = <<"a", "\n", "a", "\n", "a">>
  /\ rowCount = 2

\* C24: the CSV text in the prompt of a RunAnalysis is the text of the file
\* selected (the one whose name is shown) when RunAnalysis is triggered.
C24_PromptCarriesSelectedFile ==
  [][ (lastEvent'.op = "analyzeTransactions" /\ analysisCalls' # analysisCalls)
        => /\ file # Null
           /\ \E c \in analysisCalls' \ analysisCalls :
                c.message =
                  <<"Analyze these transaction data:", "\n", "\n">>
                    \o file[1].text ]_vars

\* C25: through the page's controls at most one analysis call is in flight:
\* no RunAnalysis is triggered while another is in flight, and analyzing is
\* true exactly from the trigger until the call settles.
C25_OneAnalysisInFlight ==
  /\ Cardinality(analysisCalls) <= 1
  /\ \A i \in 1..Len(runs) : runs[i].during = {}
  /\ analyzing <=> analysisCalls # {}

\* a second analysis is in flight after the first one has settled
C25_Witness ==
  /\ lastEvent.op = "analyzeTransactions"
  /\ Len(runs) = 2
  /\ runs[1].settled = 1
  /\ runs[2].settled = 0
  /\ Cardinality(analysisCalls) = 1
  /\ analyzing

\* C26: through the page's controls at most one chat call is in flight: no
\* question is sent while another is in flight, and chatLoading is true
\* exactly from the sending of a question until its call settles.
C26_OneChatCallInFlight ==
  /\ Cardinality(chatCalls) <= 1
  /\ \A i \in 1..Len(asks) : asks[i].during = {}
  /\ chatLoading <=> chatCalls # {}

\* a second question is in flight after the first one was answered
C26_Witness ==
  /\ lastEvent.op = "handleSendMessage"
  /\ Len(asks) = 2
  /\ asks[1].settled = 1
  /\ asks[2].settled = 0
  /\ Cardinality(chatCalls) = 1
  /\ chatLoading

\* C27: when the agent call of an Ask settles, by success, by a non-success
\* result or by a throw, chatLoading is false; with no chat call in flight
\* chatLoading is false, so a settled call never leaves the chat controls
\* disabled.
C27_SettleClearsChatLoading ==
  /\ ChatSettled => ~chatLoading
  /\ chatCalls = {} => ~chatLoading
  /\ (ChatSettled /\ dashboardData # Null) => ChatInputEnabled

\* the call of a question has thrown: no reply, and the chat is usable again
C27_Witness ==
  /\ ChatSettled
  /\ lastEvent.outcome = Thrown
  /\ Len(chatMessages) = 1
  /\ chatCalls = {}
  /\ ~chatLoading
  /\ ChatInputEnabled

\* the place of a stage label in the order of the three stages
StageRank(label) ==
  CASE label = "Cleaning data..." -> 1
    [] label = "Categorizing transactions..." -> 2
    [] label = "Calculating financial score..." -> 3
    [] OTHER -> 0

\* the number of timers of the analysis started last that have fired
OwnTimersFired == 2 - Cardinality({t \in timers : t.id = nAnalyses})

\* C28: while analyzing is true the stage label shown only moves forward
\* through the three stages, and it is never ahead of the timers of the
\* running analysis, also when an earlier analysis has run before.
C28_StageOnlyMovesForward ==
  [][ (analyzing /\ analyzing')
        => /\ StageRank(ButtonCaption') >= StageRank(ButtonCaption)
           /\ StageRank(ButtonCaption') <= 1 + OwnTimersFired' ]_vars

\* the number of turns of the transcript with the given role
TurnsOf(role) ==
  Cardinality({i \in 1..Len(chatMessages) : chatMessages[i].role = role})

\* C29: the transcript never holds more assistant turns than user turns; a
\* non-empty transcript implies that a report exists, and no user turn holds
\* a blank question.
C29_TranscriptWellFormed ==
  /\ TurnsOf("assistant") <= TurnsOf("user")
  /\ chatMessages # << >> => dashboardData # Null
  /\ \A i \in 1..Len(chatMessages) :
       chatMessages[i].role = "user" => Trim(chatMessages[i].content) # << >>

\* Enter was pressed on a blank input after one question had been answered:
\* nothing was appended
C29_Witness ==
  /\ lastEvent.op = "handleSendMessage"
  /\ Trim(chatInput) = << >>
  /\ chatInput # << >>
  /\ Len(chatMessages) = 2
  /\ chatMessages[1].role = "user"
  /\ chatMessages[2].role = "assistant"
  /\ chatCalls = {}
  /\ dashboardData # Null

\* C30: an Ask and the settling of its call leave the report, the insights
\* list, the stored file, the CSV text and the row count unchanged; a
\* RunAnalysis and the settling of its call leave the transcript and
\* chatLoading unchanged.
C30_ChatAndAnalysisDisjoint ==
  [][ /\ lastEvent'.op \in {"handleSendMessage", "ChatSettle"}
           => UNCHANGED <<dashboardData, insights, file, csvData, rowCount>>
      /\ lastEvent'.op \in {"analyzeTransactions", "AnalysisSettle"}
           => UNCHANGED <<chatMessages, chatLoading>> ]_vars

\* the answer to a question carried another report: the report shown stays
C30_Witness ==
  /\ ChatSettled
  /\ lastEvent.outcome = Response("success", ReportBody)
  /\ dashboardData = Some(D2)
  /\ insights = << >>
  /\ Last(chatMessages).role = "assistant"

=============================================================================
